---- MODULE Spec2Model ----
(***************************************************************************)
(* A model of src/src/storeProxy.jsx: the proxy store (`proxy`), its       *)
(* snapshot cache (`createSnapshot`), its listener set (`subscribe`) and   *)
(* the render-tracking hook (`useSnapshot`), driven by one consuming       *)
(* component as in the example application (`Counter`).                    *)
(*                                                                         *)
(* Every handler of the source is one action.  A write is synchronous in   *)
(* the source (the `set` trap runs `listeners.forEach` to completion), so  *)
(* the whole notification round is part of the Write action: the handlers  *)
(* are operators over a record `w` that holds the program's state, and an  *)
(* action installs the record its handler returns.                         *)
(*                                                                         *)
(* Several specifications share the actions: the application's Counter,    *)
(* a component under a host that abandons passes, the store alone, and     *)
(* clients that assign to snapshots or to the initial object, subscribe    *)
(* from inside a listener, throw from a listener, or pass another store.   *)
(***************************************************************************)
EXTENDS Integers, Sequences, FiniteSets, TLC

\* ---------------------------------------------------------------- bounds

\* Field values are 0..MaxVal.
MaxVal == 1
\* Writes made by clients after the store's creation.
MaxWrites == 2
\* Unsubscribe functions a client holds for one callback and has not called.
MaxHandles == 2

\* Re-render requests after which the parent passes no other store.
MaxUpdates == 3

\* ------------------------------------------------------------- constants

\* The fields of the example store: proxy({ count: 0, text: "hello" }).
Keys == {"count", "text"}
\* Object.keys order of the initial object.
KeyOrder == <<"count", "text">>
Values == 0..MaxVal
\* The value of an absent field (target[key] of a key never written).
Undefined == -1
\* `lastSnapshot` before the first snapshot and after a write (undefined);
\* snapshot identities are 1, 2, ... in order of creation.
NoSnap == 0
\* The callbacks a store may hold: "acc" is the callback of useSnapshot,
\* "p1" a listener a client subscribes (and may subscribe twice), "once" a
\* listener that calls its own unsubscribe function when it is invoked,
\* "adder" a listener that subscribes the listener "late" when it is invoked,
\* "thrower" a listener that throws when it is invoked.
Callbacks == {"acc", "adder", "late", "once", "p1", "thrower"}
\* A deleted entry of the Set's entry list: Set.prototype.delete empties the
\* entry in place, and forEach walks the list by index and skips the empty.
Empty == "empty"
\* The target object `{}` of a new Proxy: every field absent.
NoFields == [count |-> Undefined, text |-> Undefined]
\* The objects a store is created from: the application's
\* { count: 0, text: "hello" } ("hello" is value 0) and { count: 0 }.
InitialObjects ==
  { [count |-> 0, text |-> 0], [count |-> 0, text |-> Undefined] }

VARIABLES
  initialObject, \* the argument of proxy()
  target,        \* the Proxy's target object: field -> value
  lastSnapshot,  \* the cached snapshot's identity, or NoSnap
  snaps,         \* every snapshot created: identity -> frozen copy
  listeners,     \* the listeners Set, as its entry list in insertion order
  state,         \* useState: the committed state of the hook (a snapshot)
  queued,        \* the pending setValue argument, or NoSnap
  nUpdates,      \* the number of setValue calls (re-render requests)
  wip,           \* the render pass in progress (not yet committed)
  lastValue,     \* lastValue.current
  lastUsed,      \* lastUsed.current
  phase,         \* "initial" | "mounted" | "unmounted"
  firstValue,    \* the hook's initial state (the first render's snapshot)
  handles,       \* unsubscribe functions of "p1" held and not yet called
  cancelled,     \* callbacks unsubscribed and not subscribed again since
  epoch,         \* the identities snapshot() returned since the last write
  nWrites,       \* the number of client writes
  lastWrite,     \* the last write: its key and value, and the state before
  other,         \* a second store: its target, lastSnapshot and listeners
  bound,         \* the store (1 or 2) the subscribe effect last ran with
  ev             \* the last operation: its inputs, result and notifications

vars == << initialObject, target, lastSnapshot, snaps, listeners, state,
           queued, nUpdates, wip, lastValue, lastUsed, phase, firstValue,
           handles, cancelled, epoch, nWrites, lastWrite, other, bound,
           ev >>

\* The program's state as one record, the form the handlers work on.
World ==
  [ initialObject |-> initialObject, target |-> target,
    lastSnapshot |-> lastSnapshot, snaps |-> snaps, listeners |-> listeners,
    state |-> state, queued |-> queued, nUpdates |-> nUpdates, wip |-> wip,
    lastValue |-> lastValue, lastUsed |-> lastUsed, phase |-> phase,
    firstValue |-> firstValue, handles |-> handles, cancelled |-> cancelled,
    epoch |-> epoch, nWrites |-> nWrites, lastWrite |-> lastWrite,
    other |-> other, bound |-> bound, ev |-> ev ]

Install(w) ==
  /\ initialObject' = w.initialObject
  /\ target' = w.target
  /\ lastSnapshot' = w.lastSnapshot
  /\ snaps' = w.snaps
  /\ listeners' = w.listeners
  /\ state' = w.state
  /\ queued' = w.queued
  /\ nUpdates' = w.nUpdates
  /\ wip' = w.wip
  /\ lastValue' = w.lastValue
  /\ lastUsed' = w.lastUsed
  /\ phase' = w.phase
  /\ firstValue' = w.firstValue
  /\ handles' = w.handles
  /\ cancelled' = w.cancelled
  /\ epoch' = w.epoch
  /\ nWrites' = w.nWrites
  /\ lastWrite' = w.lastWrite
  /\ other' = w.other
  /\ bound' = w.bound
  /\ ev' = w.ev

\* The stores of the model: 1 is the application's `state`, the store the
\* variables target, lastSnapshot and listeners describe; 2 is `other`.
Stores == {1, 2}

\* No render pass in progress.
NoWip ==
  [active |-> FALSE, value |-> NoSnap, usedKeys |-> {}, seen |-> 0,
   proxy |-> 1]

\* The record of an operation that has not notified anyone.
NoEv ==
  [ op |-> "none", store |-> 1, key |-> "", value |-> Undefined,
    ret |-> Undefined,
    before |-> NoSnap, nsnaps |-> 0, old |-> NoFields,
    entries |-> << >>, cancelled |-> {}, used |-> {}, prev |-> NoSnap,
    invoked |-> [acc |-> 0, adder |-> 0, late |-> 0, once |-> 0, p1 |-> 0,
                 thrower |-> 0],
    observed |-> [acc |-> NoSnap, adder |-> NoSnap, late |-> NoSnap,
                  once |-> NoSnap, p1 |-> NoSnap, thrower |-> NoSnap],
    requested |-> FALSE, ok |-> FALSE, thrown |-> FALSE, bound |-> 1 ]

\* The start of an operation: what it is and what the state was.
Begin(w, op, key, value) ==
  [w EXCEPT !.ev = [NoEv EXCEPT !.op = op, !.key = key, !.value = value,
                                !.before = w.lastSnapshot,
                                !.nsnaps = Len(w.snaps)]]

\* The start of an operation on the listeners: the Set as it was, too.
BeginRound(w, op, key, value) ==
  [Begin(w, op, key, value) EXCEPT !.ev.entries = w.listeners,
                                   !.ev.cancelled = w.cancelled]

\* ------------------------------------------------------- the listener Set

\* The callbacks in the Set.
Members(entries) == {entries[i] : i \in 1..Len(entries)} \ {Empty}

\* Set.prototype.add: appends the value unless the Set holds it.
SetAdd(entries, cb) ==
  IF cb \in Members(entries) THEN entries ELSE Append(entries, cb)

\* A delete that removes the entry and shifts the later ones down, as
\* Array.prototype.splice does.
SetDeleteSplice(entries, cb) == SelectSeq(entries, LAMBDA e : e # cb)

\* Set.prototype.delete: empties the value's entry, in place.
SetDelete(entries, cb) ==
  [i \in 1..Len(entries) |-> IF entries[i] = cb THEN Empty ELSE entries[i]]

\* The entry list without its emptied entries (what any later walk sees).
Compact(entries) == SelectSeq(entries, LAMBDA e : e # Empty)

\* ------------------------------------------------------------- the store

\* The two stores exchanged: the handlers below work on the store that the
\* fields target, lastSnapshot and listeners of the record describe.
swap(w) ==
  [w EXCEPT !.target = w.other.target,
            !.lastSnapshot = w.other.lastSnapshot,
            !.listeners = w.other.listeners,
            !.other = [target |-> w.target, lastSnapshot |-> w.lastSnapshot,
                       listeners |-> w.listeners]]

\* The record seen from store p, and back.
focus(w, p) == IF p = 1 THEN w ELSE swap(w)

\* createSnapshot without the `if (!lastSnapshot)` test: a copy per call.
createSnapshotAlwaysNew(w) ==
  [w EXCEPT !.snaps = Append(@, w.target),
            !.lastSnapshot = Len(w.snaps) + 1,
            !.epoch = @ \cup {Len(w.snaps) + 1}]

\* createSnapshot: the cached snapshot, or a new frozen copy of the target.
createSnapshot(w) ==
  LET made == IF w.lastSnapshot = NoSnap
              THEN [w EXCEPT !.snaps = Append(@, w.target),
                             !.lastSnapshot = Len(w.snaps) + 1]
              ELSE w
  IN [made EXCEPT !.epoch = @ \cup {made.lastSnapshot}]

\* snapshot(proxy) = proxy[SNAPSHOT]; the caller's result is .lastSnapshot.
snapshot(w) == createSnapshot(w)

\* An assignment to a field of an object that is not frozen: it is made.
setUnfrozen(w, id, key, value) ==
  [w EXCEPT !.snaps[id][key] = value, !.ev.ok = TRUE]

\* snap[key] = value on a snapshot: every snapshot is made by Object.freeze,
\* so the assignment fails; module code is strict, the failure is a
\* TypeError at the caller, and no trap of the store runs.
setFrozen(w, id, key, value) == [w EXCEPT !.ev.ok = FALSE]

\* subscribe: adds the callback to the listeners Set.
subscribe(w, cb) ==
  [w EXCEPT !.listeners = SetAdd(@, cb), !.cancelled = @ \ {cb}]

\* An unsubscribe function that deletes a value the Set does not hold.
unsubscribeWrongValue(w, cb) == [w EXCEPT !.cancelled = @ \cup {cb}]

\* The function subscribe returns: deletes the callback from the Set.
unsubscribe(w, cb) ==
  [w EXCEPT !.listeners = SetDelete(@, cb), !.cancelled = @ \cup {cb}]

\* setValue(nextValue): queues the state update and requests a re-render.
setValue(w, nextValue) ==
  [w EXCEPT !.queued = nextValue, !.nUpdates = @ + 1,
            !.ev.requested = TRUE]

\* The test without `usedKeys.size`: `every` alone, true of an empty set.
UnchangedNoSize(w, usedKeys, value, nextValue) ==
  \A key \in usedKeys : w.snaps[value][key] = w.snaps[nextValue][key]

\* The `every` test of the callback: no used key differs.
Unchanged(w, usedKeys, value, nextValue) ==
  /\ usedKeys # {}
  /\ \A key \in usedKeys : w.snaps[value][key] = w.snaps[nextValue][key]

\* A callback that sets the next value without comparing.
callbackAlways(w) ==
  LET w1 == snapshot(w)
  IN setValue([w1 EXCEPT !.ev.observed["acc"] = w1.lastSnapshot],
              w1.lastSnapshot)

\* A callback that compares with the value and usedKeys of the render pass
\* in progress, as if the refs were assigned while rendering.
callbackInProgress(w) ==
  LET w1 == snapshot(w)
      nextValue == w1.lastSnapshot
      w2 == [w1 EXCEPT !.ev.observed["acc"] = nextValue]
      value == IF w.wip.active THEN w.wip.value ELSE w.lastValue
      usedKeys == IF w.wip.active THEN w.wip.usedKeys ELSE w.lastUsed
  IN IF Unchanged(w2, usedKeys, value, nextValue)
     THEN w2
     ELSE setValue(w2, nextValue)

\* The callback of useSnapshot.
callback(w) ==
  LET w1 == snapshot(w)
      nextValue == w1.lastSnapshot
      w2 == [w1 EXCEPT !.ev.observed["acc"] = nextValue]
  IN IF Unchanged(w2, w2.lastUsed, w2.lastValue, nextValue)
     THEN w2
     ELSE setValue(w2, nextValue)

\* A client's listener: reads the snapshot of the store.
listener(w, cb) ==
  LET w1 == snapshot(w)
  IN [w1 EXCEPT !.ev.observed[cb] = w1.lastSnapshot]

\* A listener that unsubscribes itself when invoked, then reads the snapshot.
listenerOnce(w) == listener(unsubscribe(w, "once"), "once")

\* A listener that subscribes another listener, "late", when invoked, then
\* reads the snapshot.
listenerAdder(w) == listener(subscribe(w, "late"), "adder")

\* A listener that throws.
listenerThrow(w) == [w EXCEPT !.ev.thrown = TRUE]

\* l(): one invocation of a callback of the Set.
Invoke(w, cb) ==
  LET w1 == [w EXCEPT !.ev.invoked[cb] = @ + 1]
  IN CASE cb = "acc" -> callback(w1)
       [] cb = "once" -> listenerOnce(w1)
       [] cb = "adder" -> listenerAdder(w1)
       [] cb = "thrower" -> listenerThrow(w1)
       [] OTHER -> listener(w1, cb)

\* listeners.forEach((l) => l()): walks the entry list by index, entries
\* appended during the walk included, emptied entries skipped; an exception
\* of a listener ends the walk.
RECURSIVE forEach(_, _)
forEach(w, i) ==
  IF i > Len(w.listeners) \/ w.ev.thrown THEN w
  ELSE IF w.listeners[i] = Empty THEN forEach(w, i + 1)
  ELSE forEach(Invoke(w, w.listeners[i]), i + 1)

\* The `set` trap without `lastSnapshot = undefined`.
proxySetNoReset(w, key, value) ==
  LET w2 == [w EXCEPT !.target[key] = value]
      w3 == forEach(w2, 1)
  IN [w3 EXCEPT !.ev.ok = TRUE]

\* The `set` trap that notifies first, then resets and mutates.
proxySetNotifyFirst(w, key, value) ==
  LET w1 == forEach(w, 1)
  IN [w1 EXCEPT !.lastSnapshot = NoSnap, !.target[key] = value,
                !.ev.ok = TRUE]

\* The `set` trap that notifies only when the value changes.
proxySetIfChanged(w, key, value) ==
  LET w1 == [w EXCEPT !.lastSnapshot = NoSnap]
      w2 == [w1 EXCEPT !.target[key] = value]
      w3 == IF w.target[key] = value THEN w2 ELSE forEach(w2, 1)
  IN [w3 EXCEPT !.ev.ok = TRUE]

\* The `set` trap of a Proxy whose target is the initial object itself.
proxySetOnInitial(w, key, value) ==
  LET w1 == [w EXCEPT !.lastSnapshot = NoSnap]
      w2 == [w1 EXCEPT !.target[key] = value, !.initialObject[key] = value]
      w3 == forEach(w2, 1)
  IN [w3 EXCEPT !.ev.ok = TRUE]

\* The `set` trap when createSnapshot returns the target itself instead of
\* a frozen copy: the snapshot that was cached takes the written value.
proxySetSharedSnapshot(w, key, value) ==
  LET w1 == [w EXCEPT !.lastSnapshot = NoSnap]
      w2 == IF w.lastSnapshot = NoSnap
            THEN [w1 EXCEPT !.target[key] = value]
            ELSE [w1 EXCEPT !.target[key] = value,
                            !.snaps[w.lastSnapshot][key] = value]
      w3 == forEach(w2, 1)
  IN [w3 EXCEPT !.ev.ok = TRUE]

\* The `set` trap with the notification in a try block that drops the
\* exception of a listener.
proxySetCatching(w, key, value) ==
  LET w1 == [w EXCEPT !.lastSnapshot = NoSnap]
      w2 == [w1 EXCEPT !.target[key] = value]
      w3 == forEach(w2, 1)
  IN [w3 EXCEPT !.ev.ok = TRUE, !.ev.thrown = FALSE]

\* The `set` trap: reset the snapshot, mutate, notify, return true; an
\* exception of a listener leaves the trap before `return true`.
proxySet(w, key, value) ==
  LET w1 == [w EXCEPT !.lastSnapshot = NoSnap]
      w2 == [w1 EXCEPT !.target[key] = value]
      w3 == forEach(w2, 1)
  IN [w3 EXCEPT !.ev.ok = ~w3.ev.thrown]

\* The `get` trap for a field: target[key].
proxyGet(w, key) == [w EXCEPT !.ev.ret = w.target[key]]

\* A write to a field of the store, with the record of what it did.
write(w, key, value) ==
  LET w0 == BeginRound(w, "write", key, value)
      w1 == [w0 EXCEPT !.ev.old = w.target,
                       !.ev.used = w.lastUsed,
                       !.ev.prev = w.lastValue,
                       !.epoch = {},
                       !.lastWrite = [key |-> key, value |-> value,
                                      old |-> w.target,
                                      nsnaps |-> Len(w.snaps)]]
      w2 == proxySet(w1, key, value)
  IN [w2 EXCEPT !.listeners = Compact(@)]

\* Object.keys(initialObject).forEach(key => proxyObject[key] = ...).
RECURSIVE copyKeys(_, _, _)
copyKeys(w, initial, i) ==
  IF i > Len(KeyOrder) THEN w
  ELSE IF initial[KeyOrder[i]] = Undefined THEN copyKeys(w, initial, i + 1)
  ELSE copyKeys(write(w, KeyOrder[i], initial[KeyOrder[i]]), initial, i + 1)

\* proxy(initialObject): an empty target, no listener, no snapshot, then
\* the copy of the initial object's fields through the `set` trap.
proxy(initial) ==
  LET w0 == [ initialObject |-> initial,
              target |-> NoFields,
              lastSnapshot |-> NoSnap, snaps |-> << >>, listeners |-> << >>,
              state |-> NoSnap, queued |-> NoSnap, nUpdates |-> 0,
              wip |-> NoWip, lastValue |-> NoSnap, lastUsed |-> {},
              phase |-> "initial", firstValue |-> NoSnap, handles |-> 0,
              cancelled |-> {}, epoch |-> {}, nWrites |-> 0,
              lastWrite |-> [key |-> "", value |-> Undefined,
                             old |-> NoFields,
                             nsnaps |-> 0],
              other |-> [target |-> NoFields, lastSnapshot |-> NoSnap,
                         listeners |-> << >>],
              bound |-> 1,
              ev |-> NoEv ]
      w1 == copyKeys(w0, initial, 1)
  IN [w1 EXCEPT !.ev.op = "create"]

\* The application's store and a second store made by another call of
\* proxy() with an object of the same fields.
stores(initial) ==
  LET w == proxy(initial)
  IN [w EXCEPT !.other = [target |-> w.target,
                          lastSnapshot |-> w.lastSnapshot,
                          listeners |-> w.listeners]]

\* initialObject[key] = value, by the client that keeps the object it
\* passed to proxy(): the Proxy's target is another object, `{}`.
setInitial(w, key, value) == [w EXCEPT !.initialObject[key] = value]

\* -------------------------------------------------------------- the hook

\* One render pass of the component: useState(snapshot(proxy)) (the argument
\* is evaluated in every pass), a new usedKeys set, and the component's
\* reads of the fields R through the tracking Proxy.
render(w, p, R) ==
  LET w0 == Begin(w, "render", "", Undefined)
      made == snapshot(focus(w0, p))
      w1 == focus(made, p)
      value == IF w.phase = "initial" THEN made.lastSnapshot
               ELSE IF w.queued # NoSnap THEN w.queued
               ELSE w.state
  IN [w1 EXCEPT !.wip = [active |-> TRUE, value |-> value, usedKeys |-> R,
                         seen |-> w.nUpdates, proxy |-> p],
                !.ev.store = p,
                !.ev.used = R,
                !.firstValue = IF w.phase = "initial" THEN value ELSE @]

\* The first effect: the refs take the committed value and usedKeys.
commitRefs(w) ==
  [w EXCEPT !.lastValue = w.wip.value, !.lastUsed = w.wip.usedKeys]

\* The second effect without its `callback()` line: subscribe only.
attachSubscribeOnly(w) ==
  IF w.phase = "initial"
  THEN [focus(subscribe(focus(w, w.wip.proxy), "acc"), w.wip.proxy)
          EXCEPT !.phase = "mounted", !.bound = w.wip.proxy]
  ELSE w

\* The second effect's body, run with the store p: subscribe, then invoke
\* the callback once.
effect(w, p) ==
  [focus(callback(subscribe(focus(w, p), "acc")), p) EXCEPT !.bound = p]

\* The second effect's cleanup: the unsubscribe function of the store the
\* effect last ran with.
cleanup(w) ==
  LET w1 == unsubscribe(focus(w, w.bound), "acc")
  IN focus([w1 EXCEPT !.listeners = Compact(@)], w.bound)

\* The second effect, with the dependency list [proxy]: it runs on mount,
\* and when the committed pass's `proxy` is not the one it last ran with,
\* after its cleanup.
attach(w) ==
  IF w.phase = "initial"
  THEN [effect(w, w.wip.proxy) EXCEPT !.phase = "mounted"]
  ELSE IF w.wip.proxy # w.bound
  THEN effect(cleanup(w), w.wip.proxy)
  ELSE w

\* The commit of the render pass in progress and the run of its effects.
commit(w) ==
  LET w0 == Begin(w, "commit", "", Undefined)
      w1 == [w0 EXCEPT !.ev.store = w.wip.proxy,
                       !.ev.bound = w.bound,
                       !.state = w.wip.value,
                       !.queued = IF w.nUpdates = w.wip.seen
                                  THEN NoSnap ELSE @,
                       !.ev.used = w.wip.usedKeys,
                       !.ev.prev = w.wip.value]
      w2 == attach(commitRefs(w1))
  IN [w2 EXCEPT !.wip = NoWip]

\* The unmount of the component: the second effect's cleanup.
unmount(w) ==
  LET w0 == BeginRound(focus(w, w.bound), "unmount", "acc", Undefined)
      w1 == cleanup(focus(w0, w.bound))
  IN [w1 EXCEPT !.phase = "unmounted", !.wip = NoWip,
                !.ev.store = w.bound]

\* --------------------------------------------------------------- actions

\* The state after construction is the record w.
Start(w) ==
  /\ initialObject = w.initialObject
  /\ target = w.target
  /\ lastSnapshot = w.lastSnapshot
  /\ snaps = w.snaps
  /\ listeners = w.listeners
  /\ state = w.state
  /\ queued = w.queued
  /\ nUpdates = w.nUpdates
  /\ wip = w.wip
  /\ lastValue = w.lastValue
  /\ lastUsed = w.lastUsed
  /\ phase = w.phase
  /\ firstValue = w.firstValue
  /\ handles = w.handles
  /\ cancelled = w.cancelled
  /\ epoch = w.epoch
  /\ nWrites = w.nWrites
  /\ lastWrite = w.lastWrite
  /\ other = w.other
  /\ bound = w.bound
  /\ ev = w.ev

Init == \E initial \in InitialObjects : Start(stores(initial))

\* A client reads a field of the store.
Read(key) ==
  /\ key \in Keys
  /\ Install(proxyGet(Begin(World, "read", key, Undefined), key))

\* A client calls snapshot(store).
Snapshot ==
  LET w == snapshot(Begin(World, "snapshot", "", Undefined))
  IN Install([w EXCEPT !.ev.ret = w.lastSnapshot])

\* A client assigns to a field of a snapshot it holds.
WriteSnapshot(id, key, value) ==
  /\ id \in 1..Len(snaps)
  /\ LET w == [Begin(World, "setFrozen", key, value) EXCEPT !.ev.ret = id]
     IN Install(setFrozen(w, id, key, value))

\* A client assigns to a field of the object the store was created from.
WriteInitial(key, value) ==
  /\ initialObject[key] # value
  /\ Install(setInitial(Begin(World, "setInitial", key, value), key, value))

\* A client writes a field of the store.
Write(key, value) ==
  /\ nWrites < MaxWrites
  /\ Install([write(World, key, value) EXCEPT !.nWrites = @ + 1])

\* A client subscribes the listener "p1" and keeps the unsubscribe function.
Subscribe ==
  /\ handles < MaxHandles
  /\ Install([subscribe(Begin(World, "subscribe", "p1", Undefined), "p1")
               EXCEPT !.handles = @ + 1])

\* A client subscribes a new self-unsubscribing listener.
SubscribeOnce ==
  /\ "once" \notin Members(listeners)
  /\ Install(subscribe(Begin(World, "subscribe", "once", Undefined), "once"))

\* A client subscribes the listener that subscribes "late".
SubscribeAdder ==
  /\ "adder" \notin Members(listeners)
  /\ Install(subscribe(Begin(World, "subscribe", "adder", Undefined),
                       "adder"))

\* A client subscribes the listener that throws.
SubscribeThrower ==
  /\ "thrower" \notin Members(listeners)
  /\ Install(subscribe(Begin(World, "subscribe", "thrower", Undefined),
                       "thrower"))

\* A client calls the unsubscribe function of "adder" or of "late".
UnsubscribeNested(cb) ==
  /\ cb \in {"adder", "late"} \cap Members(listeners)
  /\ LET w == unsubscribe(BeginRound(World, "unsubscribe", cb, Undefined),
                          cb)
     IN Install([w EXCEPT !.listeners = Compact(@)])

\* A client calls one of the unsubscribe functions it holds for "p1".
Unsubscribe ==
  /\ handles > 0
  /\ LET w == unsubscribe(BeginRound(World, "unsubscribe", "p1", Undefined),
                          "p1")
     IN Install([w EXCEPT !.handles = @ - 1, !.listeners = Compact(@)])

\* A client writes a field of the second store.
WriteOther(key, value) ==
  /\ nWrites < MaxWrites
  /\ LET w == focus(write(focus(World, 2), key, value), 2)
     IN Install([w EXCEPT !.nWrites = @ + 1, !.ev.store = 2])

\* The host renders the component with the store p; the pass reads the
\* fields R.
RenderWith(p, R) ==
  /\ phase # "unmounted"
  /\ ~wip.active
  /\ Install(render(World, p, R))

\* The host renders the application's component, whose store is `state`.
Render(R) == RenderWith(1, R)

\* The host abandons the render pass in progress.
Abandon ==
  /\ wip.active
  /\ Install([Begin(World, "abandon", "", Undefined) EXCEPT !.wip = NoWip])

\* The host commits the render pass in progress.
Commit ==
  /\ wip.active
  /\ Install(commit(World))

\* The host unmounts the component.
Unmount ==
  /\ phase = "mounted"
  /\ Install(unmount(World))

\* The Counter component of the application: it reads `count` in every
\* pass, and its parent never renders again, so a pass starts on mount and
\* on a requested re-render only.
RenderCounter ==
  /\ phase = "initial" \/ queued # NoSnap
  /\ Render({"count"})

\* The application's Counter with further subscribers of the store.
Next ==
  \/ \E key \in Keys, value \in Values : Write(key, value)
  \/ Subscribe
  \/ SubscribeOnce
  \/ Unsubscribe
  \/ RenderCounter
  \/ Commit
  \/ Unmount

Spec == Init /\ [][Next]_vars

\* A component whose passes read any fields, under a host that may start a
\* pass at any time and abandon it.
NextHook ==
  \/ \E key \in Keys, value \in Values : Write(key, value)
  \/ \E R \in SUBSET Keys : Render(R)
  \/ Abandon
  \/ Commit
  \/ Unmount

SpecHook == Init /\ [][NextHook]_vars

\* The store used without a component: reads, snapshots, writes, listeners.
NextStore ==
  \/ \E key \in Keys : Read(key)
  \/ Snapshot
  \/ \E key \in Keys, value \in Values : Write(key, value)
  \/ Subscribe
  \/ SubscribeOnce
  \/ Unsubscribe

SpecStore == Init /\ [][NextStore]_vars

\* A client that keeps the snapshots it gets and assigns to their fields.
NextFrozen ==
  \/ Snapshot
  \/ \E key \in Keys, value \in Values : Write(key, value)
  \/ SubscribeOnce
  \/ \E id \in 1..Len(snaps), key \in Keys, value \in Values :
       WriteSnapshot(id, key, value)

SpecFrozen == Init /\ [][NextFrozen]_vars

\* A client that keeps the initial object and assigns to its fields.
NextInitial ==
  \/ Snapshot
  \/ \E key \in Keys, value \in Values : Write(key, value)
  \/ SubscribeOnce
  \/ \E key \in Keys, value \in Values : WriteInitial(key, value)

SpecInitial == Init /\ [][NextInitial]_vars

\* A store with a listener that subscribes another listener while it is
\* being notified, next to a plain listener.
NextNested ==
  \/ Snapshot
  \/ \E key \in Keys, value \in Values : Write(key, value)
  \/ Subscribe
  \/ SubscribeAdder
  \/ \E cb \in {"adder", "late"} : UnsubscribeNested(cb)

SpecNested == Init /\ [][NextNested]_vars

\* A store with a listener that throws, next to a plain listener.
NextThrow ==
  \/ Snapshot
  \/ \E key \in Keys, value \in Values : Write(key, value)
  \/ Subscribe
  \/ Unsubscribe
  \/ SubscribeThrower

SpecThrow == Init /\ [][NextThrow]_vars

\* The host renders a component that reads `count`, with the store p its
\* parent passes: `state` in the passes before the mount, then the store of
\* the last commit or the other one.
RenderSwitch(p) ==
  /\ phase = "initial" => p = 1
  /\ p = bound \/ nUpdates < MaxUpdates
  /\ RenderWith(p, {"count"})

\* A component that reads `count`, rendered by a parent that passes one
\* store or the other, as it likes.
NextSwitch ==
  \/ \E key \in Keys, value \in Values : Write(key, value)
  \/ \E key \in Keys, value \in Values : WriteOther(key, value)
  \/ \E p \in Stores : RenderSwitch(p)
  \/ Commit
  \/ Unmount

SpecSwitch == Init /\ [][NextSwitch]_vars

\* ---------------------------------------------------------------- claims

\* The callbacks in the Set when the last operation started.
Registered == Members(ev.entries)

\* C1 (snapshot stability): since the last write, every snapshot() call, by a
\* client or by a listener, has returned one and the same identity; a read of
\* a field or of the snapshot notifies no listener and, when a snapshot was
\* cached, leaves that snapshot cached and creates none; snapshot() returns
\* the cached identity.
C1_SnapshotStability ==
  /\ Cardinality(epoch) <= 1
  /\ ev.op \in {"read", "snapshot"} =>
       /\ \A cb \in Callbacks : ev.invoked[cb] = 0
       /\ ev.before # NoSnap =>
            lastSnapshot = ev.before /\ Len(snaps) = ev.nsnaps
  /\ ev.op = "snapshot" => ev.ret = lastSnapshot /\ epoch = {ev.ret}

\* A snapshot() call that found the snapshot of an earlier call cached, after
\* a write.
C1_Witness ==
  /\ ev.op = "snapshot"
  /\ ev.before # NoSnap
  /\ ev.ret = ev.before
  /\ nWrites > 0

\* C2 (snapshot invalidation): the identity a snapshot() call returns was
\* created after the last write (it is none of the identities that existed
\* before it), its value for the written key is the written value, and every
\* other field has the value it had before the write.
C2_SnapshotInvalidation ==
  ev.op = "snapshot" /\ lastWrite.key # "" =>
    /\ ev.ret > lastWrite.nsnaps
    /\ snaps[ev.ret][lastWrite.key] = lastWrite.value
    /\ \A k \in Keys \ {lastWrite.key} : snaps[ev.ret][k] = lastWrite.old[k]

\* A snapshot had been returned, a client write changed a field, and the next
\* snapshot() call made a new snapshot.
C2_Witness ==
  /\ ev.op = "snapshot"
  /\ nWrites > 0
  /\ lastWrite.nsnaps > 0
  /\ lastWrite.old[lastWrite.key] # lastWrite.value
  /\ ev.before = NoSnap
  /\ ev.ret = Len(snaps)

\* C5 (invalidate before notify): every listener invoked during a write, on
\* calling snapshot(store), got a snapshot created after the write started
\* (never the one cached before it) that holds the written value.
C5_InvalidateBeforeNotify ==
  ev.op = "write" =>
    \A cb \in Callbacks :
      ev.invoked[cb] > 0 =>
        /\ ev.observed[cb] > ev.nsnaps
        /\ snaps[ev.observed[cb]][ev.key] = ev.value
        /\ snaps[ev.observed[cb]] = [ev.old EXCEPT ![ev.key] = ev.value]

\* A write that changed a field while a snapshot was cached and a listener
\* was registered.
C5_Witness ==
  /\ ev.op = "write"
  /\ ev.before # NoSnap
  /\ ev.old[ev.key] # ev.value
  /\ \E cb \in Callbacks : ev.invoked[cb] > 0

C8_UnsubscribeCorrectness ==
  /\ ev.op \in {"unsubscribe", "unmount"} =>
       Members(listeners) = Registered \ {ev.key}
  /\ ev.op = "write" =>
       /\ \A cb \in ev.cancelled : ev.invoked[cb] = 0
       /\ \A cb \in Registered : ev.invoked[cb] = 1

\* A write after the unsubscribe function of "p1" was called, with another
\* callback still registered.
C8_Witness ==
  /\ ev.op = "write"
  /\ nWrites > 0
  /\ "p1" \in ev.cancelled
  /\ Registered # {}

\* C9 (one registration per unsubscribe): while a client holds an unsubscribe
\* function of "p1" that it has not called (as after two subscribe calls
\* and one unsubscribe call), "p1" is registered and every write invokes it.
C9_OneRegistrationPerUnsubscribe ==
  /\ handles > 0 => "p1" \in Members(listeners)
  /\ ev.op = "write" /\ handles > 0 => ev.invoked["p1"] = 1

\* C10 (self-removal during notification): in a write during which "once"
\* unsubscribes itself, every callback registered when the write started is
\* invoked exactly once, and "once" is no longer registered afterwards; a
\* later write does not invoke it.
C10_SelfRemoval ==
  /\ ev.op = "write" /\ "once" \in Registered =>
       /\ \A cb \in Registered : ev.invoked[cb] = 1
       /\ "once" \notin Members(listeners)
       /\ Members(listeners) = Registered \ {"once"}
  /\ ev.op = "write" /\ "once" \in ev.cancelled => ev.invoked["once"] = 0

\* A write whose round started with "once" and went on to two other
\* callbacks.
C10_Witness ==
  /\ ev.op = "write"
  /\ Len(ev.entries) = 3
  /\ ev.entries[1] = "once"
  /\ \A cb \in Registered : ev.invoked[cb] = 1

\* A later write, after "once" removed itself, with a callback registered.
C10_WitnessLater ==
  /\ ev.op = "write"
  /\ "once" \in ev.cancelled
  /\ Registered # {}

\* The run of the end-to-end scenario: the store was created with count 0,
\* the mounted component's first pass read count as 0, and the one write
\* made so far is write(store, "count", 1).
Scenario ==
  /\ initialObject.count = 0
  /\ phase = "mounted"
  /\ snaps[firstValue].count = 0
  /\ nWrites = 1
  /\ lastWrite.key = "count"
  /\ lastWrite.value = 1

\* No render pass in progress and no re-render pending.
Settled == ~wip.active /\ queued = NoSnap

\* C4 (end-to-end scenario): in the scenario at most one re-render is ever
\* requested, the callback invocation at attach included, and once the
\* requested re-render is committed exactly one was requested and the
\* committed pass read count as 1.
C4_EndToEnd ==
  Scenario =>
    /\ nUpdates <= 1
    /\ Settled =>
         /\ nUpdates = 1
         /\ lastUsed = {"count"}
         /\ snaps[lastValue].count = 1
         /\ state = lastValue

\* The scenario, with the re-render committed.
C4_Witness == Scenario /\ Settled /\ nUpdates = 1 /\ target.count = 1

\* The writes the accessor's callback was invoked for, its last committed
\* used-keys set being non-empty.
NotifiedUsing == ev.op = "write" /\ ev.invoked["acc"] = 1 /\ ev.used # {}

\* C3 (selective re-render): in a write's notification of an accessor whose
\* committed used-keys set is non-empty, a re-render is requested if and only
\* if a used key differs between the committed snapshot and the new one; a
\* write to a key outside the set requests none; a write that changes a used
\* key requests one, with the new value.
C3_SelectiveRerender ==
  NotifiedUsing =>
    /\ ev.requested <=>
         \E k \in ev.used :
           snaps[ev.prev][k] # snaps[ev.observed["acc"]][k]
    /\ ev.key \notin ev.used => ~ev.requested
    /\ ev.key \in ev.used /\ ev.old[ev.key] # ev.value =>
         ev.requested /\ snaps[queued][ev.key] = ev.value

\* The first part of C3 alone: the request is made if and only if a used key
\* differs between the committed snapshot and the new one.
C3_RequestIffUsedKeyDiffers ==
  NotifiedUsing =>
    (ev.requested <=>
       \E k \in ev.used : snaps[ev.prev][k] # snaps[ev.observed["acc"]][k])

\* The second part of C3 alone: a write outside the used keys requests none.
C3_UnusedKeyNeverRequests ==
  NotifiedUsing /\ ev.key \notin ev.used => ~ev.requested

\* The third part of C3 alone: a write that changes a used key requests one.
C3_ChangedUsedKeyRequests ==
  NotifiedUsing /\ ev.key \in ev.used /\ ev.old[ev.key] # ev.value =>
    ev.requested /\ snaps[queued][ev.key] = ev.value

\* C7 (empty-used-keys conservatism): in a write's notification of an
\* accessor whose committed used-keys set is empty, a re-render is requested
\* with the new snapshot, which holds the store's fields after the write.
C7_EmptyUsedKeys ==
  ev.op = "write" /\ ev.invoked["acc"] = 1 /\ ev.used = {} =>
    /\ ev.requested
    /\ queued = ev.observed["acc"]
    /\ queued > ev.nsnaps
    /\ snaps[queued] = target
    /\ snaps[queued][ev.key] = ev.value

\* A write of the value the field already had, notified to an accessor that
\* read nothing in its committed pass.
C7_Witness ==
  /\ ev.op = "write"
  /\ ev.invoked["acc"] = 1
  /\ ev.used = {}
  /\ ev.old[ev.key] = ev.value
  /\ ev.requested

\* C11 (snapshot immutability): an assignment to a field of a snapshot is
\* rejected and changes no snapshot, no field of the store and not the cached
\* snapshot, and invokes no listener.
C11_SnapshotImmutability ==
  [][ev'.op = "setFrozen" =>
       /\ ~ev'.ok
       /\ snaps' = snaps
       /\ target' = target
       /\ lastSnapshot' = lastSnapshot
       /\ listeners' = listeners
       /\ \A cb \in Callbacks : ev'.invoked[cb] = 0]_vars

\* An assignment of a new value to a field of the cached snapshot, with a
\* listener registered.
C11_Witness ==
  /\ ev.op = "setFrozen"
  /\ ev.ret = lastSnapshot
  /\ snaps[ev.ret][ev.key] # ev.value
  /\ Members(listeners) # {}
  /\ nWrites > 0

\* C12 (store creation): the store just created reads as the initial object
\* for every key, and no listener was registered or invoked in its creation;
\* a write to the store leaves the initial object as it was, and an
\* assignment to the initial object leaves the store's fields, its snapshots
\* and its cached snapshot as they were, and invokes no listener.
C12_StoreCreation ==
  /\ [](ev.op = "create" =>
          /\ target = initialObject
          /\ listeners = << >>
          /\ Len(snaps) = 0
          /\ \A cb \in Callbacks : ev.invoked[cb] = 0)
  /\ [][/\ ev'.op = "write" => initialObject' = initialObject
        /\ ev'.op = "setInitial" =>
             /\ target' = target
             /\ snaps' = snaps
             /\ lastSnapshot' = lastSnapshot
             /\ \A cb \in Callbacks : ev'.invoked[cb] = 0]_vars

\* A write made the store differ from the initial object, and then an
\* assignment to the initial object was made while a snapshot was cached.
C12_Witness ==
  /\ ev.op = "setInitial"
  /\ nWrites > 0
  /\ \E k \in Keys : target[k] # initialObject[k] /\ k # ev.key
  /\ lastSnapshot # NoSnap
  /\ Members(listeners) # {}

\* C13 (request re-render updates the committed value): when a write's
\* notification has requested a re-render with a snapshot and the next
\* operation is another write, before any render or commit, the value the
\* accessor's callback compares with in that write is the requested
\* snapshot.
C13_RequestUpdatesCommittedValue ==
  [][/\ ev.op = "write"
     /\ ev.requested
     /\ ev'.op = "write"
     /\ ev'.invoked["acc"] = 1
     => ev'.prev = queued]_vars

\* The last write was made after the snapshot of the pass now committed was
\* taken, to a key that pass read, and changed the key's value.
WrittenSinceSnapshot ==
  /\ lastWrite.nsnaps >= ev'.prev
  /\ lastWrite.key \in ev'.used
  /\ lastWrite.old[lastWrite.key] # lastWrite.value

\* C14 as stated (mutation caught at attach): when a write changed a field
\* the first pass read, after that pass took its snapshot and before the
\* commit that subscribes, the callback invoked at attach requests a
\* re-render with a snapshot that holds the written value.
C14_CaughtAtAttach ==
  [][phase = "initial" /\ ev'.op = "commit" /\ WrittenSinceSnapshot =>
       /\ ev'.requested
       /\ snaps'[queued'][lastWrite.key] = lastWrite.value]_vars

\* C14 amended: when, at the commit that subscribes, a field the committed
\* pass read differs in the store from that pass's snapshot, the callback
\* invoked at attach requests a re-render with a new snapshot that holds the
\* store's fields, the last written value included; when every field the
\* pass read (it read one at least) has its snapshot's value again, writes
\* made in between have cancelled out and no re-render is requested.
C14_DifferenceCaughtAtAttach ==
  [][phase = "initial" /\ ev'.op = "commit" /\ ev'.used # {} =>
       IF \E k \in ev'.used : snaps'[ev'.prev][k] # target'[k]
       THEN /\ ev'.requested
            /\ queued' = ev'.observed["acc"]
            /\ queued' > ev'.prev
            /\ snaps'[queued'] = target'
            /\ WrittenSinceSnapshot =>
                 snaps'[queued'][lastWrite.key] = lastWrite.value
       ELSE ~ev'.requested]_vars

\* The commit that subscribed, after one write that changed a field the
\* first pass had read: the callback at attach requested the re-render.
C14_Witness ==
  /\ ev.op = "commit"
  /\ ev.observed["acc"] # NoSnap
  /\ nWrites = 1
  /\ lastWrite.nsnaps >= ev.prev
  /\ lastWrite.key \in ev.used
  /\ lastWrite.old[lastWrite.key] # lastWrite.value
  /\ ev.requested
  /\ snaps[queued][lastWrite.key] = lastWrite.value

\* C15 (only committed bookkeeping is compared): a render pass's used-keys
\* set holds the keys that pass read and no key of an earlier pass; the refs
\* change in a commit only, to the committed pass's value and used keys; and
\* whether a write's notification requests a re-render is decided by the
\* refs and the new snapshot alone, whatever a pass in progress has read.
C15_OnlyCommittedCompared ==
  [][/\ ev'.op = "render" => wip'.usedKeys = ev'.used
     /\ lastUsed' # lastUsed \/ lastValue' # lastValue =>
          /\ ev'.op = "commit"
          /\ lastUsed' = wip.usedKeys
          /\ lastValue' = wip.value
     /\ ev'.op = "write" /\ ev'.invoked["acc"] = 1 =>
          /\ ev'.used = lastUsed
          /\ ev'.prev = lastValue
          /\ ev'.requested <=>
               \/ lastUsed = {}
               \/ \E k \in lastUsed : snaps[lastValue][k] # target'[k]]_vars

\* A write changed a key that the pass in progress had read and the last
\* committed pass had not, and requested no re-render.
C15_Witness ==
  /\ ev.op = "write"
  /\ ev.invoked["acc"] = 1
  /\ wip.active
  /\ ev.used # {}
  /\ ev.key \in wip.usedKeys \ ev.used
  /\ ev.old[ev.key] # ev.value
  /\ ~ev.requested

\* C16 (no stale committed view): whenever the component is mounted, no
\* render pass is in progress and no requested re-render is pending, every
\* key the last committed pass read has in the committed snapshot the value
\* it has in the store.
C16_NoStaleCommittedView ==
  phase = "mounted" /\ Settled =>
    /\ state = lastValue
    /\ \A k \in lastUsed : snaps[lastValue][k] = target[k]

\* C17 (point-in-time snapshots): no step changes a snapshot that exists, so
\* each keeps the fields the store had when it was made; a step makes at most
\* one snapshot, only when none is cached or the step is a write, and the new
\* snapshot holds the store's fields and is the cached one; and at most one
\* snapshot has been made since the last write started.
C17_PointInTimeSnapshots ==
  /\ [](Len(snaps) - lastWrite.nsnaps <= 1)
  /\ [][/\ Len(snaps') >= Len(snaps)
        /\ \A id \in 1..Len(snaps) : snaps'[id] = snaps[id]
        /\ Len(snaps') <= Len(snaps) + 1
        /\ Len(snaps') > Len(snaps) =>
             /\ lastSnapshot = NoSnap \/ ev'.op = "write"
             /\ snaps'[Len(snaps')] = target'
             /\ lastSnapshot' = Len(snaps')]_vars

\* A write changed a field while a snapshot was cached: that snapshot keeps
\* the old value, and a listener has got a new snapshot with the new one.
C17_Witness ==
  /\ ev.op = "write"
  /\ nWrites > 0
  /\ ev.before # NoSnap
  /\ ev.old[ev.key] # ev.value
  /\ snaps[ev.before][ev.key] = ev.old[ev.key]
  /\ lastSnapshot > ev.before
  /\ snaps[lastSnapshot][ev.key] = ev.value

\* C18 (subscription during notification): a write does not invoke "late"
\* when "late" was not in the Set as the write started, also when a listener
\* subscribes it during the write's notification round.
C18_SubscribedDuringRound ==
  ev.op = "write" /\ "late" \notin Registered => ev.invoked["late"] = 0

\* The place of "thrower" in the Set when the last operation started.
ThrowerAt == CHOOSE i \in 1..Len(ev.entries) : ev.entries[i] = "thrower"

\* C19 (listener failure): a write that invokes the listener that throws
\* ends with the exception at its caller, without reporting success; the
\* listeners before the failing one were invoked once and those after it
\* were not invoked; the written field holds the new value and the others
\* are as before; the snapshot cached before the write is not cached any
\* more, and a cached snapshot, like the one the next snapshot() call
\* returns, holds the store's fields; the Set is as it was.
C19_ListenerFailure ==
  /\ ev.op = "write" /\ "thrower" \in Registered =>
       /\ ev.invoked["thrower"] = 1
       /\ ev.thrown
       /\ ~ev.ok
       /\ \A i \in 1..Len(ev.entries) :
            ev.invoked[ev.entries[i]] = IF i <= ThrowerAt THEN 1 ELSE 0
       /\ target = [ev.old EXCEPT ![ev.key] = ev.value]
       /\ lastSnapshot = NoSnap \/ lastSnapshot > ev.nsnaps
       /\ lastSnapshot # NoSnap => snaps[lastSnapshot] = target
       /\ listeners = ev.entries
  /\ ev.op = "snapshot" => snaps[ev.ret] = target

\* A write that changed a field while a snapshot was cached, with the
\* listener that throws registered before a plain listener.
C19_Witness ==
  /\ ev.op = "write"
  /\ ev.thrown
  /\ ev.entries = <<"thrower", "p1">>
  /\ ev.before # NoSnap
  /\ ev.old[ev.key] # ev.value
  /\ target[ev.key] = ev.value

\* A snapshot() call after a write that failed in the first listener.
C19_WitnessNextSnapshot ==
  /\ ev.op = "snapshot"
  /\ ev.before = NoSnap
  /\ nWrites > 0
  /\ listeners = <<"thrower", "p1">>
  /\ snaps[ev.ret][lastWrite.key] = lastWrite.value
  /\ lastWrite.old[lastWrite.key] # lastWrite.value

\* The accessor's callback is in the listeners Set of store p.
AccIn(p) ==
  "acc" \in Members(IF p = 1 THEN listeners ELSE other.listeners)

\* The fields of store p.
TargetOf(p) == IF p = 1 THEN target ELSE other.target

\* C20, first part: the commit of a pass whose store is not the one of the
\* previous commit leaves the accessor's callback out of the old store's Set
\* and in the new store's, and has invoked it once, on the new store.
C20_Resubscribes ==
  ev.op = "commit" /\ ev.store # ev.bound =>
    /\ bound = ev.store
    /\ ~AccIn(ev.bound)
    /\ AccIn(ev.store)
    /\ ev.observed["acc"] # NoSnap
    /\ snaps[ev.observed["acc"]] = TargetOf(ev.store)

\* C20, second part: after the change to store 2, a write to store 1 does
\* not invoke the accessor's callback and requests no re-render.
C20_OldStoreSilent ==
  ev.op = "write" /\ phase = "mounted" /\ bound = 2 /\ ev.store = 1 =>
    ev.invoked["acc"] = 0 /\ ~ev.requested

\* C20, third part: after the change to store 2, a write to store 2 that
\* changes a key the last committed pass read requests a re-render.
C20_NewStoreRequests ==
  /\ ev.op = "write"
  /\ phase = "mounted"
  /\ bound = 2
  /\ ev.store = 2
  /\ ev.key \in ev.used
  /\ ev.old[ev.key] # ev.value
  => ev.requested

\* C20, fourth part: the accessor's callback is in one Set at most.
C20_OneRegistration == ~(AccIn(1) /\ AccIn(2))

\* C20 (changing the store of a mounted accessor): the four parts together.
C20_StoreChange ==
  /\ C20_Resubscribes
  /\ C20_OldStoreSilent
  /\ C20_NewStoreRequests
  /\ C20_OneRegistration

====
